---- MODULE Spec2Model ----
(***************************************************************************)
(* Ant colony optimisation for the 3D travelling-salesman problem:         *)
(* ant_colony_optimization_simple of "Laba3/task 3_3.py" (headless) and    *)
(* the helper functions of "Laba3/task 3_2.py" (interactive).              *)
(*                                                                         *)
(* Python floats are modelled as exact rationals <<num, den>> (den > 0,    *)
(* lowest terms).  Points are drawn from collinear lattice points whose    *)
(* pairwise Euclidean distances are integers, so math.sqrt is exact.       *)
(* Node indices are 0-based as in the code; TLA+ sequences are 1-based,    *)
(* so path[i] of the code is path[i + 1] here.                             *)
(***************************************************************************)
EXTENDS Integers, Sequences, FiniteSets, TLC

\* ------------------------------------------------------------------ bounds
MaxN == 4
MaxIter == 2
MaxAnts == 2
\* the most tours one run of the model builds (ants * iterations)
MaxTours == 4

\* ------------------------------------------------------- exact arithmetic
Abs(x) == IF x < 0 THEN -x ELSE x

RECURSIVE GCD(_, _)
GCD(a, b) == IF b = 0 THEN a ELSE GCD(b, a % b)

\* the rational n/d (d # 0) in lowest terms with a positive denominator
Norm(n, d) ==
    LET s == IF d < 0 THEN -1 ELSE 1
        g == GCD(Abs(n), Abs(d))
    IN  << (s * n) \div g, Abs(d) \div g >>

RInt(k) == << k, 1 >>

RNeg(x) == << -x[1], x[2] >>

RAdd(x, y) ==
    LET g == GCD(x[2], y[2])
        l == (x[2] \div g) * y[2]
    IN  Norm(x[1] * (l \div x[2]) + y[1] * (l \div y[2]), l)

RSub(x, y) == RAdd(x, RNeg(y))

RMul(x, y) ==
    LET g1 == GCD(Abs(x[1]), y[2])
        g2 == GCD(Abs(y[1]), x[2])
    IN  Norm((x[1] \div g1) * (y[1] \div g2), (x[2] \div g2) * (y[2] \div g1))

\* x / y for y # 0
RDiv(x, y) == RMul(x, Norm(y[2], y[1]))

RLess(x, y) == RSub(x, y)[1] < 0

RIsZero(x) == x[1] = 0

RPos(x) == x[1] > 0

RECURSIVE RPow(_, _)
RPow(x, k) == IF k = 0 THEN RInt(1) ELSE RMul(x, RPow(x, k - 1))

\* ------------------------------------------------------------- parameters
\* float('inf'): larger than every finite tour length of the model
Inf == 1000000

\* best_path_overall = None
None == << >>

\* pheromone[(i, j)] = 0.1
Tau0 == << 1, 10 >>

\* alpha: float = 1.0, beta: float = 2.0
Alpha == 1
Beta == 2

\* the coordinates the points argument is drawn from: multiples of (3, 4, 0)
CoordList == << <<0, 0, 0>>, <<3, 4, 0>>, <<6, 8, 0>>, <<12, 16, 0>> >>

\* the pairs << evaporation, q >> the model calls the optimizer with:
\* the defaults 0.1 and 100.0, no evaporation, evaporation 1 and 2 (outside
\* [0, 1)), and evaporation 1 with q = 0 (every trail vanishes)
ParamInputs == { << <<1, 10>>, 100 >>, << <<0, 1>>, 100 >>, << <<1, 1>>, 100 >>,
                 << <<2, 1>>, 100 >>, << <<1, 1>>, 0 >> }

\* ------------------------------------------------------------------ state
VARIABLES
    points,               \* argument: sequence of <<x, y, z>>
    iterations,           \* argument
    ants,                 \* argument
    evaporation,          \* argument (a rational)
    q,                    \* argument (an integer)
    distances,            \* dict (i, j) -> distance
    pheromone,            \* dict (i, j) -> rational
    pc,                   \* "loop" (before the for loop), "ants", "done" (returned), "raised"
    iteration,            \* number of iterations of the for loop completed
    all_paths,            \* list of the tours built in the current iteration
    current_best_path,    \* local of the loop body
    current_best_length,  \* local of the loop body
    best_path_overall,
    best_length_overall,
    exception,            \* "none" or the name of the exception that escaped
    old_pheromone,        \* history: pheromone as it was before the last update
    tours_built,          \* history: number of tours constructed in this run
    min_built,            \* history: least closed-cycle length of a tour built
    control,              \* interactive variant: the global ControlState object
    pending,              \* interactive variant: key presses not yet dispatched to on_key
    mpc,                  \* interactive variant: position in main ("none" in the headless run)
    session               \* interactive variant: number of sessions started

vars == << points, iterations, ants, evaporation, q, distances, pheromone, pc,
           iteration, all_paths, current_best_path, current_best_length,
           best_path_overall, best_length_overall, exception,
           old_pheromone, tours_built, min_built,
           control, pending, mpc, session >>

\* the state of the interactive program, which the headless optimizer never touches
ivars == << control, pending, mpc, session >>


\* ------------------------------------------------- distances and pheromone
\* math.sqrt, exact on the perfect squares the coordinates produce
ISqrt(k) == CHOOSE r \in 0..k : r * r = k

cached_distance(p1, p2) ==
    LET dx == p1[1] - p2[1]
        dy == p1[2] - p2[2]
        dz == p1[3] - p2[3]
    IN  ISqrt(dx * dx + dy * dy + dz * dz)

\* for j in range(i + 1, n) in place of the test i != j: only the pairs i < j
KeysUpperTriangle(n) == { k \in (0..(n - 1)) \X (0..(n - 1)) : k[1] < k[2] }

\* the keys (i, j), i != j, of both dictionaries
Keys(n) == { k \in (0..(n - 1)) \X (0..(n - 1)) : k[1] # k[2] }

build_distance_matrix_cached(pts) ==
    [ k \in Keys(Len(pts)) |-> cached_distance(pts[k[1] + 1], pts[k[2] + 1]) ]

\* range(n) without the test i != j: the diagonal pairs (i, i) get a trail too
initialize_pheromones_with_diagonal(n) ==
    [ k \in (0..(n - 1)) \X (0..(n - 1)) |-> Tau0 ]

initialize_pheromones(n) == [ k \in Keys(n) |-> Tau0 ]

\* ------------------------------------------------------- transition weight
\* the result of computing one weight: the exception raised, or the value
Raised(e) == [ raise |-> e, prob |-> RInt(0) ]

Value(p) == [ raise |-> "none", prob |-> p ]

\* the exponents exchanged: tau ** beta * eta ** alpha
AttractivenessSwapped(tau, d) ==
    RMul(RPow(tau, Beta), RPow(RDiv(RInt(1), RInt(d)), Alpha))

\* tau ** alpha * eta ** beta with eta = 1.0 / d
Attractiveness(tau, d) ==
    RMul(RPow(tau, Alpha), RPow(RDiv(RInt(1), RInt(d)), Beta))

\* the inline weight of ant_colony_optimization_simple
SimpleProb(ph, dist, current, node) ==
    IF current = node THEN Value(RInt(0))
    ELSE LET key == << current, node >>
             tau == IF key \in DOMAIN ph THEN ph[key] ELSE Tau0
         IN  IF key \notin DOMAIN dist THEN Raised("KeyError")
             ELSE IF dist[key] = 0 THEN Raised("ZeroDivisionError")
             ELSE Value(Attractiveness(tau, dist[key]))

\* the try/except left out: a missing key raises KeyError
calculate_transition_prob_no_except(ph, dist, current, next_node) ==
    IF current = next_node THEN Value(RInt(0))
    ELSE LET key == << current, next_node >>
         IN  IF key \notin DOMAIN ph \/ key \notin DOMAIN dist THEN Raised("KeyError")
             ELSE IF dist[key] = 0 THEN Raised("ZeroDivisionError")
             ELSE Value(Attractiveness(ph[key], dist[key]))

\* `except Exception` in place of `except KeyError`: a division by a zero
\* distance gives the weight 0.0 as well
calculate_transition_prob_except_all(ph, dist, current, next_node) ==
    IF current = next_node THEN Value(RInt(0))
    ELSE LET key == << current, next_node >>
         IN  IF key \notin DOMAIN ph \/ key \notin DOMAIN dist THEN Value(RInt(0))
             ELSE IF dist[key] = 0 THEN Value(RInt(0))
             ELSE Value(Attractiveness(ph[key], dist[key]))

\* calculate_transition_prob of the interactive variant: KeyError is caught
calculate_transition_prob(ph, dist, current, next_node) ==
    IF current = next_node THEN Value(RInt(0))
    ELSE LET key == << current, next_node >>
         IN  IF key \notin DOMAIN ph \/ key \notin DOMAIN dist THEN Value(RInt(0))
             ELSE IF dist[key] = 0 THEN Raised("ZeroDivisionError")
             ELSE Value(Attractiveness(ph[key], dist[key]))

TransitionProb(variant, ph, dist, current, node) ==
    IF variant = "simple" THEN SimpleProb(ph, dist, current, node)
    ELSE calculate_transition_prob(ph, dist, current, node)

\* ------------------------------------------------------------ random draws
RECURSIVE SumPrefix(_, _)
SumPrefix(w, k) == IF k = 0 THEN RInt(0) ELSE RAdd(SumPrefix(w, k - 1), w[k])

\* bisect.bisect_right(a, x, lo, hi) on the 0-based list a
RECURSIVE Bisect(_, _, _, _)
Bisect(a, x, lo, hi) ==
    IF lo < hi
    THEN LET mid == (lo + hi) \div 2
         IN  IF RLess(x, a[mid + 1]) THEN Bisect(a, x, lo, mid)
             ELSE Bisect(a, x, mid + 1, hi)
    ELSE lo

\* random.choices(population, weights = w): the 1-based positions it can
\* return, over every draw random() in [0, 1); {} when it raises ValueError.
\* The comparisons of the bisection change only at the cumulative weights,
\* so 0 and the cumulative weights below the total stand for every draw.
Choices(w) ==
    LET n     == Len(w)
        cum   == [ k \in 1..n |-> SumPrefix(w, k) ]
        total == cum[n]
        draws == { RInt(0) } \cup
                 { cum[k] : k \in { j \in 1..n : RPos(cum[j]) /\ RLess(cum[j], total) } }
    IN  IF ~RPos(total) THEN {}
        ELSE { Bisect(cum, x, 0, n - 1) + 1 : x \in draws }

\* random.randint(0, n - 1): the values it can return; {} when it raises
RandInt(n) == 0..(n - 1)

\* --------------------------------------------------------- tour construction
RECURSIVE SortedSeq(_)
SortedSeq(S) ==
    IF S = {} THEN << >>
    ELSE LET m == CHOOSE x \in S : \A y \in S : x <= y
         IN  << m >> \o SortedSeq(S \ {m})

\* range(n - 1) in place of range(n): the last node is never a candidate
UnvisitedOffByOne(n, visited) == SortedSeq({ i \in 0..(n - 2) : i \notin visited })

\* [i for i in range(n) if i not in visited]
Unvisited(n, visited) == SortedSeq({ i \in 0..(n - 1) : i \notin visited })

Built(path) == [ raise |-> "none", path |-> path ]

Failed(e) == [ raise |-> e, path |-> << >> ]

\* the result of drawing the next node: the exception that escapes, or the
\* nodes the draw can return
Picked(nodes) == [ raise |-> "none", nodes |-> nodes ]

NoPick(e) == [ raise |-> e, nodes |-> {} ]

\* the weights of the step from `current` to each unvisited node, in order
StepWeights(variant, ph, dist, current, unvisited) ==
    [ k \in 1..Len(unvisited) |-> TransitionProb(variant, ph, dist, current, unvisited[k]) ]

\* the total == 0 test left out: the weights are divided by a zero total
PickNextNoFallback(unvisited, probs, total) ==
    IF RIsZero(total) THEN NoPick("ZeroDivisionError")
    ELSE CHOOSE r \in
           { IF picks = {} THEN NoPick("ValueError")
             ELSE Picked({ unvisited[k] : k \in picks })
             : picks \in { Choices([ k \in DOMAIN probs |-> RDiv(probs[k], total) ]) } } : TRUE

\* if total == 0: random.choice(unvisited)
\* else: random.choices(unvisited, weights = [p / total for p in probs])
\* (a one-element set binds a value that is then computed once)
PickNext(unvisited, probs, total) ==
    IF RIsZero(total) THEN Picked({ unvisited[k] : k \in DOMAIN unvisited })
    ELSE CHOOSE r \in
           { IF picks = {} THEN NoPick("ValueError")
             ELSE Picked({ unvisited[k] : k \in picks })
             : picks \in { Choices([ k \in DOMAIN probs |-> RDiv(probs[k], total) ]) } } : TRUE

\* the loop over the unvisited nodes, then the draw: the first exception
\* raised while the weights ws are computed escapes
DrawFrom(unvisited, ws) ==
    LET m   == Len(unvisited)
        bad == { k \in 1..m : ws[k].raise # "none" }
    IN  IF bad # {} THEN NoPick(ws[CHOOSE k \in bad : \A j \in bad : k <= j].raise)
        ELSE CHOOSE r \in
               { PickNext(unvisited, probs, total)
                 : probs \in { [ k \in 1..m |-> ws[k].prob ] },
                   total \in { SumPrefix([ k \in 1..m |-> ws[k].prob ], m) } } : TRUE

DrawNext(variant, ph, dist, current, unvisited) ==
    CHOOSE r \in { DrawFrom(unvisited, ws)
                   : ws \in { StepWeights(variant, ph, dist, current, unvisited) } } : TRUE

\* the while loop of tour construction from the partial tour `path`:
\* the set of its outcomes over every random draw
RECURSIVE ConstructFrom(_, _, _, _, _)
ConstructFrom(variant, ph, dist, n, path) ==
    LET visited   == { path[k] : k \in 1..Len(path) }
        current   == path[Len(path)]
        unvisited == Unvisited(n, visited)
    IN  IF ~(Cardinality(visited) < n) \/ unvisited = << >> THEN { Built(path) }
        ELSE UNION { IF step.raise # "none" THEN { Failed(step.raise) }
                     ELSE UNION { ConstructFrom(variant, ph, dist, n, Append(path, x))
                                  : x \in step.nodes }
                     : step \in { DrawNext(variant, ph, dist, current, unvisited) } }

\* one ant: construct_path / the body of `for ant in range(ants)`
ConstructPath(variant, ph, dist, n) ==
    IF RandInt(n) = {} THEN { Failed("ValueError") }
    ELSE UNION { ConstructFrom(variant, ph, dist, n, << s >>) : s \in RandInt(n) }

\* ------------------------------------------------------------- tour length
LAdd(a, b) == IF a = Inf \/ b = Inf THEN Inf ELSE a + b

\* distances.get((a, b), float('inf'))
DistGet(dist, a, b) == IF << a, b >> \in DOMAIN dist THEN dist[<< a, b >>] ELSE Inf

RECURSIVE PathLengthFrom(_, _, _)
PathLengthFrom(path, dist, i) ==
    IF i >= Len(path) THEN 0
    ELSE LAdd(DistGet(dist, path[i + 1], path[((i + 1) % Len(path)) + 1]),
              PathLengthFrom(path, dist, i + 1))

\* range(n - 1) in place of range(n): the edge from the last node back to the
\* first is not counted
path_length_no_wrap(path, dist) ==
    IF Len(path) = 0 \/ PathLengthFrom(path, dist, 0) = Inf
    THEN PathLengthFrom(path, dist, 0)
    ELSE PathLengthFrom(path, dist, 0) - DistGet(dist, path[Len(path)], path[1])

\* range(1, len(path)) in place of range(len(path)): the first edge is left out
path_length_skip_first(path, dist) == PathLengthFrom(path, dist, 1)

\* compute_path_length / path_length: the closed-cycle length
compute_path_length(path, dist) == PathLengthFrom(path, dist, 0)

\* max in place of min: the first longest tour
MaxPath(paths, dist) ==
    LET len(k) == compute_path_length(paths[k], dist)
        best   == CHOOSE k \in 1..Len(paths) :
                     /\ \A j \in 1..Len(paths) : len(k) >= len(j)
                     /\ \A j \in 1..(k - 1) : len(j) < len(k)
    IN  paths[best]

\* ties broken the other way: the last minimal tour
MinPathLast(paths, dist) ==
    LET len(k) == compute_path_length(paths[k], dist)
        best   == CHOOSE k \in 1..Len(paths) :
                     /\ \A j \in 1..Len(paths) : len(k) <= len(j)
                     /\ \A j \in (k + 1)..Len(paths) : len(j) > len(k)
    IN  paths[best]

\* min(all_paths, key = compute_path_length): the first minimal tour
MinPath(paths, dist) ==
    LET len(k) == compute_path_length(paths[k], dist)
        best   == CHOOSE k \in 1..Len(paths) :
                     /\ \A j \in 1..Len(paths) : len(k) <= len(j)
                     /\ \A j \in 1..(k - 1) : len(j) > len(k)
    IN  paths[best]

\* --------------------------------------------------------- pheromone update
\* pheromone[key] -= evaporation in place of the multiplication
EvaporateSubtract(ph, rho) == [ k \in DOMAIN ph |-> RSub(ph[k], rho) ]

\* for key in pheromone: pheromone[key] *= (1 - evaporation)
Evaporate(ph, rho) == [ k \in DOMAIN ph |-> RMul(ph[k], RSub(RInt(1), rho)) ]

\* q / length
Deposit(qq, length) == IF length = Inf THEN RInt(0) ELSE Norm(qq, length)

\* for i in range(stop): the edge from path[i] to path[(i + 1) % len(path)]
\* gets `amount` if it is a key of the dictionary
RECURSIVE ReinforceFrom(_, _, _, _, _)
ReinforceFrom(ph, path, i, stop, amount) ==
    IF i >= stop THEN ph
    ELSE LET key == << path[i + 1], path[((i + 1) % Len(path)) + 1] >>
         IN  ReinforceFrom(IF key \in DOMAIN ph
                           THEN [ ph EXCEPT ![key] = RAdd(@, amount) ]
                           ELSE ph,
                           path, i + 1, stop, amount)

\* range(len(path) - 1): the edge from the last node back to the first is left out
ReinforceNoWrap(ph, path, length, qq) ==
    IF length > 0 THEN ReinforceFrom(ph, path, 0, Len(path) - 1, Deposit(qq, length)) ELSE ph

\* the reverse edge (b, a) gets the deposit as well
ReinforceSymmetric(ph, path, length, qq) ==
    LET rev == [ k \in 1..Len(path) |-> path[Len(path) + 1 - k] ]
    IN  IF length > 0
        THEN ReinforceFrom(ReinforceFrom(ph, path, 0, Len(path), Deposit(qq, length)),
                           rev, 0, Len(rev), Deposit(qq, length))
        ELSE ph

\* if length > 0: reinforce every edge of the closed tour
Reinforce(ph, path, length, qq) ==
    IF length > 0 THEN ReinforceFrom(ph, path, 0, Len(path), Deposit(qq, length)) ELSE ph

\* evaporation, then reinforcement of the iteration-best tour
update_pheromones(ph, best_path, length, rho, qq) ==
    Reinforce(Evaporate(ph, rho), best_path, length, qq)

\* ------------------------------------------------------------ specification
N == Len(points)

\* ControlState(): the flags as the constructor sets them. `delay` only scales
\* the sleep between two frames and is left out.
ControlState ==
    [ paused |-> FALSE, restart_requested |-> FALSE,
      quit_requested |-> FALSE, confirmed_quit |-> FALSE ]

\* the rest of the loop body moved into the ant loop: it runs as soon as one
\* tour is built
AllToursBuiltAfterFirst(paths, n_ants) == Len(paths) >= 1 \/ n_ants = 0

\* `for ant in range(ants)` / `for _ in range(ants)` is exhausted
AllToursBuilt(paths, n_ants) == Len(paths) >= n_ants

\* a sequence of n points with non-decreasing positions in CoordList
PointInputs(n) ==
    { [ i \in 1..n |-> CoordList[idx[i]] ] :
        idx \in { f \in [ 1..n -> 1..Len(CoordList) ] :
                    \A i \in 1..(n - 1) : f[i] <= f[i + 1] } }

\* the state at the head of the for loop of the first iteration
Init ==
    /\ \E n \in 0..MaxN : points \in PointInputs(n)
    /\ iterations \in 0..MaxIter
    /\ ants \in 0..MaxAnts
    /\ iterations * ants <= MaxTours
    /\ \E pq \in ParamInputs : evaporation = pq[1] /\ q = pq[2]
    /\ distances = build_distance_matrix_cached(points)
    /\ pheromone = initialize_pheromones(Len(points))
    /\ pc = "loop"
    /\ iteration = 0
    /\ all_paths = << >>
    /\ current_best_path = None
    /\ current_best_length = Inf
    /\ best_path_overall = None
    /\ best_length_overall = Inf
    /\ exception = "none"
    /\ old_pheromone = pheromone
    /\ tours_built = 0
    /\ min_built = Inf
    /\ control = ControlState
    /\ pending = << >>
    /\ mpc = "none"
    /\ session = 0

\* the head of `for iteration in range(iterations)` of the first iteration:
\* all_paths = [] when the loop body is entered
BeginIteration ==
    /\ pc = "loop"
    /\ iteration < iterations
    /\ all_paths' = << >>
    /\ pc' = "ants"
    /\ UNCHANGED << points, iterations, ants, evaporation, q, distances, pheromone,
                    iteration, current_best_path, current_best_length,
                    best_path_overall, best_length_overall, exception,
                    old_pheromone, tours_built, min_built >>
    /\ UNCHANGED ivars

\* one pass of `for ant in range(ants)`: a tour is built and appended
BuildTour ==
    /\ pc = "ants"
    /\ ~AllToursBuilt(all_paths, ants)
    /\ \E o \in ConstructPath("simple", pheromone, distances, N) :
          IF o.raise = "none"
          THEN /\ all_paths' = Append(all_paths, o.path)
               /\ tours_built' = tours_built + 1
               /\ min_built' = IF compute_path_length(o.path, distances) < min_built
                               THEN compute_path_length(o.path, distances)
                               ELSE min_built
               /\ UNCHANGED << pc, exception >>
          ELSE /\ pc' = "raised"
               /\ exception' = o.raise
               /\ UNCHANGED << all_paths, tours_built, min_built >>
    /\ UNCHANGED << points, iterations, ants, evaporation, q, distances, pheromone,
                    iteration, current_best_path, current_best_length,
                    best_path_overall, best_length_overall, old_pheromone >>
    /\ UNCHANGED ivars

\* the comparison left out: the iteration-best tour always replaces the best
UpdateBestAlways(cur_path, cur_len, best_path, best_len) == << cur_path, cur_len >>

\* the new best result: if current_best_length < best_length_overall
UpdateBest(cur_path, cur_len, best_path, best_len) ==
    IF cur_len < best_len THEN << cur_path, cur_len >> ELSE << best_path, best_len >>

\* the rest of the loop body (iteration-best tour, best overall, pheromone
\* update) and the loop head that follows it: the next iteration starts with
\* all_paths = [], or the function returns and its list of tours is dropped
SelectAndUpdate ==
    /\ pc = "ants"
    /\ AllToursBuilt(all_paths, ants)
    /\ IF all_paths = << >>
       THEN /\ pc' = "raised"
            /\ exception' = "ValueError"
            /\ UNCHANGED << pheromone, iteration, all_paths, current_best_path,
                            current_best_length, best_path_overall,
                            best_length_overall, old_pheromone >>
       ELSE LET path   == MinPath(all_paths, distances)
                length == compute_path_length(path, distances)
                best   == UpdateBest(path, length, best_path_overall, best_length_overall)
            IN  /\ current_best_path' = path
                /\ current_best_length' = length
                /\ best_path_overall' = best[1]
                /\ best_length_overall' = best[2]
                /\ old_pheromone' = pheromone
                /\ pheromone' = update_pheromones(pheromone, path, length, evaporation, q)
                /\ iteration' = iteration + 1
                /\ all_paths' = << >>
                /\ pc' = IF iteration + 1 < iterations THEN "ants" ELSE "done"
                /\ UNCHANGED exception
    /\ UNCHANGED << points, iterations, ants, evaporation, q, distances,
                    tours_built, min_built >>
    /\ UNCHANGED ivars

\* range(iterations) is empty: return best_path_overall, best_length_overall
Return ==
    /\ pc = "loop"
    /\ iteration >= iterations
    /\ pc' = "done"
    /\ UNCHANGED << points, iterations, ants, evaporation, q, distances, pheromone,
                    iteration, all_paths, current_best_path, current_best_length,
                    best_path_overall, best_length_overall, exception,
                    old_pheromone, tours_built, min_built >>
    /\ UNCHANGED ivars

Next == BeginIteration \/ BuildTour \/ SelectAndUpdate \/ Return

Spec == Init /\ [][Next]_vars

\* ------------------------------------------------- the interactive variant
\* Positions of visualize_optimization (pc while mpc = "session"):
\*   "top"        the head of `for it in range(iterations)` and the quit test
\*   "pause"      the test of `while control.paused`
\*   "restart"    the test of control.restart_requested
\*   "paths"      the list comprehension of construct_path
\*   "evaporate"  update_pheromones, before the evaporation loop
\*   "reinforce"  update_pheromones, after the evaporation loop
\*   "draw"       the frame is drawn and the GUI events are flushed
\* and, once the figure is closed: "completed" (range exhausted), "broke"
\* (the quit test), "restarted" (the restart test), "raised".
\* Positions of main (mpc): "main" (head of `while True`), "session",
\* "ask" (ask_for_exit is reading the console), "exited", "raised".

\* bounds of the interactive program: run_session(SessionPoints, MaxIter, MaxAnts)
SessionPoints == 3
MaxSessions == 2
MaxPending == 1

\* event.key of the key presses: the arrow keys change only the delay
KeyInputs == { "p", "r", "q", "up" }

\* the answers typed at the prompt of ask_for_exit: yes, no, anything else
AnswerInputs == { "y", "n", "?" }

\* generate_points: the first points are fixed, the last one varies and may
\* coincide with the one before it
SessionPointInputs ==
    { p \in PointInputs(SessionPoints) :
        \A i \in 1..(SessionPoints - 1) : p[i] = CoordList[i] }

\* the dictionary built from generate_edges(points)
generate_edges(pts) ==
    [ k \in Keys(Len(pts)) |->
        LET dx == pts[k[1] + 1][1] - pts[k[2] + 1][1]
            dy == pts[k[1] + 1][2] - pts[k[2] + 1][2]
            dz == pts[k[1] + 1][3] - pts[k[2] + 1][3]
        IN  ISqrt(dx * dx + dy * dy + dz * dz) ]

on_key(ctl, key) ==
    IF key = "p" THEN [ ctl EXCEPT !.paused = ~@ ]
    ELSE IF key = "r" THEN [ ctl EXCEPT !.restart_requested = TRUE ]
    ELSE IF key = "q" THEN [ ctl EXCEPT !.quit_requested = TRUE ]
    ELSE ctl

\* fig.canvas.flush_events() / plt.pause(): on_key runs for every pending key
\* press, in the order of arrival
RECURSIVE flush_events(_, _)
flush_events(ctl, keys) ==
    IF keys = << >> THEN ctl
    ELSE flush_events(on_key(ctl, Head(keys)), Tail(keys))

\* a test of control.quit_requested added between the two loops of
\* update_pheromones
AfterEvaporationQuitTest(ctl) == IF ctl.quit_requested THEN "broke" ELSE "reinforce"

\* update_pheromones goes from the evaporation loop on to the reinforcement,
\* whatever the flags are
AfterEvaporation(ctl) == "reinforce"

\* the program is started: control = ControlState(), main is at `while True`
InitInteractive ==
    /\ points = << >>
    /\ iterations = MaxIter
    /\ ants = MaxAnts
    /\ evaporation = << 1, 10 >>
    /\ q = 100
    /\ distances = generate_edges(<< >>)
    /\ pheromone = initialize_pheromones(0)
    /\ pc = "none"
    /\ iteration = 0
    /\ all_paths = << >>
    /\ current_best_path = None
    /\ current_best_length = Inf
    /\ best_path_overall = None
    /\ best_length_overall = Inf
    /\ exception = "none"
    /\ old_pheromone = pheromone
    /\ tours_built = 0
    /\ min_built = Inf
    /\ control = ControlState
    /\ pending = << >>
    /\ mpc = "main"
    /\ session = 0

\* the variables only the headless optimizer writes
hvars == << iterations, ants, evaporation, q, best_path_overall, best_length_overall >>

\* one pass of `while True` of main up to the first iteration of the session:
\* the flags but `paused` are cleared, run_session generates the points and
\* visualize_optimization builds its tables
StartSession ==
    /\ mpc = "main"
    /\ session < MaxSessions
    /\ control' = [ control EXCEPT !.restart_requested = FALSE,
                                   !.quit_requested = FALSE,
                                   !.confirmed_quit = FALSE ]
    /\ \E pts \in SessionPointInputs :
          /\ points' = pts
          /\ distances' = generate_edges(pts)
          /\ pheromone' = initialize_pheromones(Len(pts))
          /\ old_pheromone' = initialize_pheromones(Len(pts))
    /\ iteration' = 0
    /\ all_paths' = << >>
    /\ current_best_path' = None
    /\ current_best_length' = Inf
    /\ tours_built' = 0
    /\ min_built' = Inf
    /\ pending' = << >>
    /\ pc' = "top"
    /\ mpc' = "session"
    /\ session' = session + 1
    /\ UNCHANGED exception
    /\ UNCHANGED hvars

\* the figure is closed and visualize_optimization returns to main, which
\* calls ask_for_exit in both branches of its test of quit_requested
EndSession(position) ==
    /\ pc' = position
    /\ mpc' = "ask"
    /\ pending' = << >>

\* the head of the for loop, then `if control.quit_requested: break`
LoopHead ==
    /\ mpc = "session"
    /\ pc = "top"
    /\ IF iteration >= iterations THEN EndSession("completed")
       ELSE IF control.quit_requested THEN EndSession("broke")
       ELSE pc' = "pause" /\ UNCHANGED << mpc, pending >>
    /\ UNCHANGED << points, distances, pheromone, iteration, all_paths,
                    current_best_path, current_best_length, exception,
                    old_pheromone, tours_built, min_built, control, session >>
    /\ UNCHANGED hvars

\* one test of `while control.paused` and one pass of its body: the events
\* are flushed unless quit_requested breaks the loop
PauseLoop ==
    /\ mpc = "session"
    /\ pc = "pause"
    /\ IF control.paused /\ ~control.quit_requested
       THEN /\ control' = flush_events(control, pending)
            /\ pending' = << >>
            /\ pc' = "pause"
       ELSE /\ pc' = "restart"
            /\ UNCHANGED << control, pending >>
    /\ UNCHANGED << points, distances, pheromone, iteration, all_paths,
                    current_best_path, current_best_length, exception,
                    old_pheromone, tours_built, min_built, mpc, session >>
    /\ UNCHANGED hvars

\* the test of control.restart_requested left out: the iteration goes on
RestartTestIgnored ==
    /\ mpc = "session"
    /\ pc = "restart"
    /\ pc' = "paths"
    /\ UNCHANGED << points, distances, pheromone, iteration, all_paths,
                    current_best_path, current_best_length, exception,
                    old_pheromone, tours_built, min_built, control, session,
                    mpc, pending >>
    /\ UNCHANGED hvars

\* if control.restart_requested: close the figure and return
RestartTest ==
    /\ mpc = "session"
    /\ pc = "restart"
    /\ IF control.restart_requested THEN EndSession("restarted")
       ELSE pc' = "paths" /\ UNCHANGED << mpc, pending >>
    /\ UNCHANGED << points, distances, pheromone, iteration, all_paths,
                    current_best_path, current_best_length, exception,
                    old_pheromone, tours_built, min_built, control, session >>
    /\ UNCHANGED hvars
\* one call of construct_path in the list comprehension; an exception other
\* than KeyError escapes up to main and ends the program
BuildPath ==
    /\ mpc = "session"
    /\ pc = "paths"
    /\ ~AllToursBuilt(all_paths, ants)
    /\ \E o \in ConstructPath("interactive", pheromone, distances, N) :
          IF o.raise = "none"
          THEN /\ all_paths' = Append(all_paths, o.path)
               /\ tours_built' = tours_built + 1
               /\ min_built' = IF compute_path_length(o.path, distances) < min_built
                               THEN compute_path_length(o.path, distances)
                               ELSE min_built
               /\ UNCHANGED << pc, mpc, exception >>
          ELSE /\ pc' = "raised"
               /\ mpc' = "raised"
               /\ exception' = o.raise
               /\ UNCHANGED << all_paths, tours_built, min_built >>
    /\ UNCHANGED << points, distances, pheromone, iteration, current_best_path,
                    current_best_length, old_pheromone, control, pending, session >>
    /\ UNCHANGED hvars

\* best_path = min(paths, key = path_length); best_len = path_length(best_path);
\* then update_pheromones is entered. `paths` is not read again.
SelectBest ==
    /\ mpc = "session"
    /\ pc = "paths"
    /\ AllToursBuilt(all_paths, ants)
    /\ all_paths # << >>
    /\ current_best_path' = MinPath(all_paths, distances)
    /\ current_best_length' = compute_path_length(MinPath(all_paths, distances), distances)
    /\ all_paths' = << >>
    /\ pc' = "evaporate"
    /\ UNCHANGED << points, distances, pheromone, iteration, exception,
                    old_pheromone, tours_built, min_built, control, pending,
                    mpc, session >>
    /\ UNCHANGED hvars

\* update_pheromones: for key in pheromone: pheromone[key] *= (1 - evaporation)
EvaporateStep ==
    /\ mpc = "session"
    /\ pc = "evaporate"
    /\ old_pheromone' = pheromone
    /\ pheromone' = Evaporate(pheromone, evaporation)
    /\ pc' = AfterEvaporation(control)
    /\ mpc' = IF AfterEvaporation(control) = "reinforce" THEN "session" ELSE "ask"
    /\ UNCHANGED << points, distances, iteration, all_paths, current_best_path,
                    current_best_length, exception, tours_built, min_built,
                    control, pending, session >>
    /\ UNCHANGED hvars

\* update_pheromones: the deposit on the edges of best_path, and the return
ReinforceStep ==
    /\ mpc = "session"
    /\ pc = "reinforce"
    /\ pheromone' = Reinforce(pheromone, current_best_path,
                              compute_path_length(current_best_path, distances), q)
    /\ pc' = "draw"
    /\ UNCHANGED << points, distances, iteration, all_paths, current_best_path,
                    current_best_length, exception, old_pheromone, tours_built,
                    min_built, control, pending, mpc, session >>
    /\ UNCHANGED hvars

\* the frame is drawn, fig.canvas.flush_events() dispatches the pending key
\* presses, and after `await asyncio.sleep(control.delay)` the loop goes on
DrawFrame ==
    /\ mpc = "session"
    /\ pc = "draw"
    /\ control' = flush_events(control, pending)
    /\ pending' = << >>
    /\ iteration' = iteration + 1
    /\ pc' = "top"
    /\ UNCHANGED << points, distances, pheromone, all_paths, current_best_path,
                    current_best_length, exception, old_pheromone, tours_built,
                    min_built, mpc, session >>
    /\ UNCHANGED hvars

\* the user presses a key while the figure is open: the GUI queues the event
\* until the program flushes the events
KeyPress ==
    /\ mpc = "session"
    /\ Len(pending) < MaxPending
    /\ \E key \in KeyInputs : pending' = Append(pending, key)
    /\ UNCHANGED << points, distances, pheromone, pc, iteration, all_paths,
                    current_best_path, current_best_length, exception,
                    old_pheromone, tours_built, min_built, control, mpc, session >>
    /\ UNCHANGED hvars

\* ask_for_exit: one answer is read; main breaks on yes, starts the next
\* pass of `while True` on no, and the question is repeated otherwise
AskForExit ==
    /\ mpc = "ask"
    /\ \E answer \in AnswerInputs :
          mpc' = IF answer = "y" THEN "exited"
                 ELSE IF answer = "n" THEN "main"
                 ELSE "ask"
    /\ UNCHANGED << points, distances, pheromone, pc, iteration, all_paths,
                    current_best_path, current_best_length, exception,
                    old_pheromone, tours_built, min_built, control, pending, session >>
    /\ UNCHANGED hvars

NextInteractive ==
    \/ StartSession
    \/ LoopHead
    \/ PauseLoop
    \/ RestartTest
    \/ BuildPath
    \/ SelectBest
    \/ EvaporateStep
    \/ ReinforceStep
    \/ DrawFrame
    \/ KeyPress
    \/ AskForExit

SpecInteractive == InitInteractive /\ [][NextInteractive]_vars

\* ------------------------------------- tour construction on partial tables
\* construct_path(pheromone, distances, n) is a function of its arguments: a
\* caller may pass tables that lack some pairs. The tables of three distinct
\* points are cut down to every subset of their keys, and one tour is
\* constructed from them with the weight of each variant.
\*   pc: "call" (before the call), "interactive" (construct_path has ended),
\*       "simple" (the ant loop body of the headless optimizer has ended)
TablePoints == SubSeq(CoordList, 1, 3)

Restrict(table, keys) == [ k \in keys |-> table[k] ]

InitTables ==
    /\ points = TablePoints
    /\ iterations = 1
    /\ ants = 1
    /\ evaporation = << 1, 10 >>
    /\ q = 100
    /\ \E keys \in SUBSET Keys(Len(TablePoints)) :
          distances = Restrict(generate_edges(TablePoints), keys)
    /\ \E keys \in SUBSET Keys(Len(TablePoints)) :
          pheromone = Restrict(initialize_pheromones(Len(TablePoints)), keys)
    /\ pc = "call"
    /\ iteration = 0
    /\ all_paths = << >>
    /\ current_best_path = None
    /\ current_best_length = Inf
    /\ best_path_overall = None
    /\ best_length_overall = Inf
    /\ exception = "none"
    /\ old_pheromone = pheromone
    /\ tours_built = 0
    /\ min_built = Inf
    /\ control = ControlState
    /\ pending = << >>
    /\ mpc = "none"
    /\ session = 0

\* one call of construct_path of the interactive variant
CallConstructPath ==
    /\ pc = "call"
    /\ pc' = "interactive"
    /\ \E o \in ConstructPath("interactive", pheromone, distances, N) :
          IF o.raise = "none"
          THEN /\ all_paths' = << o.path >>
               /\ tours_built' = 1
               /\ UNCHANGED exception
          ELSE /\ exception' = o.raise
               /\ UNCHANGED << all_paths, tours_built >>
    /\ UNCHANGED << points, distances, pheromone, iteration, current_best_path,
                    current_best_length, old_pheromone, min_built >>
    /\ UNCHANGED hvars
    /\ UNCHANGED ivars

\* one pass of the body of `for ant in range(ants)` of the headless optimizer
CallAntLoopBody ==
    /\ pc = "call"
    /\ pc' = "simple"
    /\ \E o \in ConstructPath("simple", pheromone, distances, N) :
          IF o.raise = "none"
          THEN /\ all_paths' = << o.path >>
               /\ tours_built' = 1
               /\ UNCHANGED exception
          ELSE /\ exception' = o.raise
               /\ UNCHANGED << all_paths, tours_built >>
    /\ UNCHANGED << points, distances, pheromone, iteration, current_best_path,
                    current_best_length, old_pheromone, min_built >>
    /\ UNCHANGED hvars
    /\ UNCHANGED ivars

NextTables == CallConstructPath \/ CallAntLoopBody

SpecTables == InitTables /\ [][NextTables]_vars

\* ------------------------------------------------------------------ claims
IsPermutation(path, n) ==
    /\ Len(path) = n
    /\ { path[k] : k \in 1..Len(path) } = 0..(n - 1)

\* the directed edges of the closed tour, the edge from the last node to the
\* first included
TourEdges(path) ==
    { << path[i + 1], path[((i + 1) % Len(path)) + 1] >> : i \in 0..(Len(path) - 1) }

\* the four distinct points of CoordList, in order
FourPoints == points = CoordList

\* C1: for N >= 2, every tour construction produces is a permutation of
\* 0..N-1 (length N, no index repeated, none omitted): the tours of the inline
\* ant loop, and every tour construct_path of the interactive variant can
\* return from the pheromone state an iteration starts with.
C1_ToursArePermutations ==
    N >= 2 =>
        /\ \A k \in 1..Len(all_paths) : IsPermutation(all_paths[k], N)
        /\ (pc = "ants" /\ all_paths = << >>) =>
               \A o \in ConstructPath("interactive", pheromone, distances, N) :
                   o.raise = "none" => IsPermutation(o.path, N)

\* a second iteration on four distinct points has built two different tours
C1_Witness ==
    /\ FourPoints
    /\ iteration = 1
    /\ Len(all_paths) = 2
    /\ all_paths[1] # all_paths[2]

\* C2: when the optimizer returns after iterations >= 1 on N >= 2 points,
\* best_length_overall is the least closed-cycle length of all tours built, and
\* best_path_overall is a permutation of 0..N-1 of that closed-cycle length.
C2_ReturnsMinimum ==
    (pc = "done" /\ iterations >= 1 /\ N >= 2) =>
        /\ best_length_overall = min_built
        /\ IsPermutation(best_path_overall, N)
        /\ compute_path_length(best_path_overall, distances) = best_length_overall

\* the run returns a best tour found before its last iteration
C2_Witness ==
    /\ pc = "done"
    /\ FourPoints
    /\ iterations = 2
    /\ ants = 2
    /\ best_length_overall = 40
    /\ current_best_length = 50

\* C3: best_length_overall never increases: every step leaves it less than or
\* equal to its value before, starting from +infinity.
C3_BestLengthNonIncreasing == [][best_length_overall' <= best_length_overall]_vars

\* a second iteration whose best tour is longer than the best so far has ended
C3_Witness ==
    /\ iteration = 2
    /\ current_best_length > best_length_overall
    /\ best_length_overall < Inf

\* C4: given rho < 1 and q > 0, every pheromone entry is strictly positive in
\* every reachable state.
C4_PheromonePositive ==
    (RLess(evaporation, RInt(1)) /\ q > 0) =>
        \A k \in DOMAIN pheromone : RPos(pheromone[k])

\* two updates with rho = 0.1 have left an entry that was never reinforced
C4_Witness ==
    /\ iteration = 2
    /\ evaporation = << 1, 10 >>
    /\ q > 0
    /\ \E k \in DOMAIN pheromone : pheromone[k] = << 81, 1000 >>

\* C5: after an update, every directed edge of the closed iteration-best tour,
\* the edge from the last node to the first included, holds
\* (1 - rho) * old + q / length: evaporation first, then q / length added once.
C5_OnTourEntries ==
    (iteration >= 1 /\ N >= 2) =>
        \A e \in TourEdges(current_best_path) :
            /\ e \in DOMAIN pheromone
            /\ pheromone[e] = RAdd(RMul(RSub(RInt(1), evaporation), old_pheromone[e]),
                                   Deposit(q, current_best_length))

\* the second update on four points, with the default parameters
C5_Witness ==
    /\ iteration = 2
    /\ FourPoints
    /\ evaporation = << 1, 10 >>
    /\ q = 100
    /\ current_best_length = 40

\* C6: after an update, every entry that is not a directed edge of the closed
\* iteration-best tour holds (1 - rho) times its old value.
C6_OffTourEntries ==
    iteration >= 1 =>
        \A e \in DOMAIN pheromone \ TourEdges(current_best_path) :
            pheromone[e] = RMul(RSub(RInt(1), evaporation), old_pheromone[e])

\* the second update on four points: eight entries are off the tour, among
\* them the reverse of a tour edge, after an earlier reinforcement
C6_Witness ==
    /\ iteration = 2
    /\ FourPoints
    /\ evaporation = << 1, 10 >>
    /\ q = 100
    /\ \E e \in TourEdges(current_best_path) :
          /\ << e[2], e[1] >> \notin TourEdges(current_best_path)
          /\ RLess(Tau0, old_pheromone[<< e[2], e[1] >>])

\* C7: called with iterations = 0 the optimizer fails (it does not return a
\* result) and constructs no tour.
C7_ZeroIterationsFails == iterations = 0 => (pc # "done" /\ tours_built = 0)

\* C8: on fewer than 2 points the optimizer fails before any tour is
\* constructed: no tour is built and no result is returned.
C8_FewerThanTwoPointsFails ==
    (N < 2 /\ iterations >= 1 /\ ants >= 1) => (pc # "done" /\ tours_built = 0)

\* C9: with rho outside [0, 1) evaporation fails and leaves every pheromone
\* entry unchanged.
C9_BadRhoLeavesPheromone ==
    (RLess(evaporation, RInt(0)) \/ ~RLess(evaporation, RInt(1))) =>
        pheromone = initialize_pheromones(N)

\* C10: with two coincident points (distance 0 between distinct indices) tour
\* construction raises no arithmetic fault.
C10_CoincidentPointsNoFault ==
    (\E k \in DOMAIN distances : distances[k] = 0) => exception # "ZeroDivisionError"


\* the partial tours of a construction on n nodes: the sequences of 1..n-1
\* distinct nodes
PartialPaths(n) ==
    { p \in UNION { [1..m -> 0..(n - 1)] : m \in 1..(n - 1) } :
        \A i, j \in DOMAIN p : i # j => p[i] # p[j] }

\* the step after the partial tour p computes every weight without an
\* exception and the weights sum to exactly zero
ZeroSumAt(variant, ph, dist, n, p) ==
    LET unvisited == Unvisited(n, { p[k] : k \in 1..Len(p) })
        ws        == StepWeights(variant, ph, dist, p[Len(p)], unvisited)
    IN  /\ \A k \in 1..Len(unvisited) : ws[k].raise = "none"
        /\ RIsZero(SumPrefix([ k \in 1..Len(unvisited) |-> ws[k].prob ], Len(unvisited)))

\* C11: when the weights to all unvisited candidates sum to exactly zero at a
\* construction step, in either variant, the next node is one of the unvisited
\* nodes and construction neither raises nor stalls: from that step every
\* outcome is a complete permutation that extends the partial tour, and so is
\* every tour already built in the iteration.
C11_ZeroSumFallback ==
    (N >= 2 /\ pc = "ants") =>
        /\ \A k \in 1..Len(all_paths) : IsPermutation(all_paths[k], N)
        /\ all_paths = << >> =>
             \A variant \in { "simple", "interactive" } :
               \A p \in PartialPaths(N) :
                 ZeroSumAt(variant, pheromone, distances, N, p) =>
                   \A o \in ConstructFrom(variant, pheromone, distances, N, p) :
                     /\ o.raise = "none"
                     /\ IsPermutation(o.path, N)
                     /\ SubSeq(o.path, 1, Len(p)) = p

\* with rho = 1 and q = 0 every trail is zero after the first update: the two
\* tours of the second iteration on four points were drawn by the fallback at
\* every step, and differ
C11_Witness ==
    /\ FourPoints
    /\ iteration = 1
    /\ \A k \in DOMAIN pheromone : RIsZero(pheromone[k])
    /\ Len(all_paths) = 2
    /\ \A k \in 1..2 : \A i \in 1..3 :
          ZeroSumAt("simple", pheromone, distances, N, SubSeq(all_paths[k], 1, i))
    /\ all_paths[1] # all_paths[2]

\* C13: on N = 2 points at distance d > 0, with ants >= 1 and iterations >= 1,
\* every constructed tour has closed-cycle length exactly 2 * d, and the
\* optimizer returns length 2 * d with the tour [0, 1] or [1, 0].
C13_TwoPoints ==
    (N = 2 /\ ants >= 1 /\ iterations >= 1) =>
        LET d == cached_distance(points[1], points[2])
        IN  d > 0 =>
              /\ \A k \in 1..Len(all_paths) :
                    compute_path_length(all_paths[k], distances) = 2 * d
              /\ iteration >= 1 => current_best_length = 2 * d
              /\ pc = "done" =>
                    /\ best_length_overall = 2 * d
                    /\ best_path_overall \in { << 0, 1 >>, << 1, 0 >> }

\* a run of two iterations of two ants on two points 15 apart has returned
\* the tour that starts at node 1
C13_Witness ==
    /\ N = 2
    /\ cached_distance(points[1], points[2]) = 15
    /\ iterations = 2
    /\ ants = 2
    /\ pc = "done"
    /\ tours_built = 4
    /\ best_path_overall = << 1, 0 >>
    /\ best_length_overall = 30

\* C15: within one iteration the pheromone matrix is read-only while the
\* `ants` tours are constructed: no step taken before all of them are built
\* changes it or starts the next iteration, and it changes only in the step
\* that follows the last ant's tour and ends the iteration, so every ant of
\* iteration k + 1 reads exactly the matrix the update of iteration k left.
C15_PheromoneReadOnlyWhileBuilding ==
    [][ /\ (pc = "ants" /\ Len(all_paths) < ants) =>
              (pheromone' = pheromone /\ iteration' = iteration)
        /\ pheromone' # pheromone =>
              (pc = "ants" /\ Len(all_paths) = ants /\ iteration' = iteration + 1) ]_vars

\* both ants of the second iteration have built their tours from the matrix
\* the first update left, which differs from the initial one
C15_Witness ==
    /\ iteration = 1
    /\ ants = 2
    /\ Len(all_paths) = 2
    /\ pheromone # initialize_pheromones(N)
    /\ pheromone = update_pheromones(old_pheromone, current_best_path,
                                     current_best_length, evaporation, q)

\* C16: the distance table has an entry for every ordered pair (i, j) of
\* distinct point indices and none for i = j, is symmetric, and is never
\* modified after it is built from the points.
C16_DistanceTable ==
    /\ DOMAIN distances = { k \in (0..(N - 1)) \X (0..(N - 1)) : k[1] # k[2] }
    /\ \A i, j \in 0..(N - 1) : i # j => distances[<< i, j >>] = distances[<< j, i >>]
    /\ distances = build_distance_matrix_cached(points)

\* two iterations on four distinct points have read the table
C16_Witness ==
    /\ FourPoints
    /\ iteration = 2
    /\ tours_built = 4
    /\ distances[<< 0, 3 >>] = 20
    /\ distances[<< 3, 0 >>] = 20

\* C18: the tour an iteration reinforces is the earliest-constructed tour of
\* minimum closed-cycle length among the tours of that iteration: it becomes
\* the iteration best, and the update deposits q / its length on its edges and
\* on no other, whatever the best tour of an earlier iteration is.
C18_ReinforcesIterationBest ==
    [][ iteration' = iteration + 1 =>
          \E k \in 1..Len(all_paths) :
            LET len(j) == compute_path_length(all_paths[j], distances)
            IN  /\ current_best_path' = all_paths[k]
                /\ current_best_length' = len(k)
                /\ \A j \in 1..Len(all_paths) : len(k) <= len(j)
                /\ \A j \in 1..(k - 1) : len(j) > len(k)
                /\ \A e \in DOMAIN pheromone :
                      pheromone'[e] =
                          IF e \in TourEdges(all_paths[k]) /\ len(k) > 0
                          THEN RAdd(RMul(RSub(RInt(1), evaporation), pheromone[e]),
                                    Deposit(q, len(k)))
                          ELSE RMul(RSub(RInt(1), evaporation), pheromone[e]) ]_vars

\* the second iteration reinforced its own best tour of length 50 although the
\* best tour so far, of length 40, has other edges
C18_Witness ==
    /\ FourPoints
    /\ iteration = 2
    /\ evaporation = << 1, 10 >>
    /\ q = 100
    /\ current_best_length = 50
    /\ best_length_overall = 40
    /\ \E e \in TourEdges(current_best_path) \ TourEdges(best_path_overall) :
          pheromone[e] = RAdd(RMul(<< 9, 10 >>, old_pheromone[e]), RInt(2))

\* C20: the transition weight from the current node to a candidate is 0 when
\* the two are the same node, and otherwise pheromone * (1 / distance)^2
\* (alpha = 1, beta = 2), in both variants; the step that computes the weights
\* of a tour changes neither the pheromone matrix nor the distance table.
\* (The weights are compared when the first ant of an iteration starts: the
\* later ants of the iteration read the same two tables.)
C20_TransitionWeight ==
    [][ (pc = "ants" /\ Len(all_paths) < ants) =>
          /\ all_paths = << >> =>
               \A variant \in { "simple", "interactive" } :
                 \A c, n \in 0..(N - 1) :
                   LET w == TransitionProb(variant, pheromone, distances, c, n)
                   IN  /\ c = n => w = Value(RInt(0))
                       /\ (c # n /\ distances[<< c, n >>] > 0) =>
                            w = Value(RDiv(pheromone[<< c, n >>],
                                           RInt(distances[<< c, n >>] * distances[<< c, n >>])))
          /\ pheromone' = pheromone
          /\ distances' = distances ]_vars

\* a tour of the second iteration was built from trails that are no longer
\* uniform: the weights of two edges of equal length differ
C20_Witness ==
    /\ FourPoints
    /\ iteration = 1
    /\ Len(all_paths) = 1
    /\ tours_built = 2
    /\ distances[<< 0, 1 >>] = distances[<< 1, 2 >>]
    /\ pheromone[<< 0, 1 >>] # pheromone[<< 1, 2 >>]
    /\ SimpleProb(pheromone, distances, 0, 1).prob # SimpleProb(pheromone, distances, 1, 2).prob

\* C17: in the interactive variant, once R has stopped a session the program
\* goes on to a new session and does not exit: the program never ends after a
\* session that the restart request stopped.
C17_RestartDoesNotExit == pc = "restarted" => mpc # "exited"

\* C19: in the interactive variant the requests take effect only at an
\* iteration boundary. A session is left (for a reason other than an
\* exception) only from the tests at the head of an iteration, and then every
\* update that was started is complete: the matrix is the initial one, or the
\* evaporated matrix of the last update with q / length added on the edges of
\* that iteration's best tour. While an update is in progress no flag changes.
C19_RequestsAtIterationBoundary ==
    [][ /\ (mpc = "session" /\ mpc' \notin { "session", "raised" }) =>
              /\ pc \in { "top", "restart" }
              /\ IF iteration = 0 THEN pheromone' = initialize_pheromones(N)
                 ELSE pheromone' = update_pheromones(old_pheromone, current_best_path,
                                                     current_best_length, evaporation, q)
        /\ pc \in { "evaporate", "reinforce" } =>
              (control' = control /\ mpc' = "session") ]_vars

\* Q was pressed while the session was paused: the pause loop broke, one more
\* iteration ran with quit_requested set, and the quit test that followed
\* ended the session with its update complete
C19_Witness ==
    /\ mpc = "ask"
    /\ pc = "broke"
    /\ control.paused
    /\ control.quit_requested
    /\ iteration = 1
    /\ pheromone # initialize_pheromones(N)
    /\ pheromone = update_pheromones(old_pheromone, current_best_path,
                                     current_best_length, evaporation, q)

\* C22 as stated: for every N >= 2 and every directed edge (a, b) of the
\* closed reinforced tour, the reverse entry (b, a) holds (1 - rho) times its
\* old value after the update: it got no deposit.
C22_ReverseEdgeNotReinforced_Original ==
    (iteration >= 1 /\ N >= 2) =>
        \A e \in TourEdges(current_best_path) :
            pheromone[<< e[2], e[1] >>] =
                RMul(RSub(RInt(1), evaporation), old_pheromone[<< e[2], e[1] >>])

\* C22 (amended): for every N >= 3 the reverse (b, a) of a directed edge of
\* the closed reinforced tour is not an edge of that tour and holds
\* (1 - rho) times its old value after the update; for N = 2 the closed tour
\* is 0 -> 1 -> 0, the reverse of each edge is the other edge, and both
\* entries get the deposit q / length.
C22_ReverseEdgeNotReinforced ==
    /\ (iteration >= 1 /\ N >= 3) =>
          \A e \in TourEdges(current_best_path) :
              /\ << e[2], e[1] >> \notin TourEdges(current_best_path)
              /\ pheromone[<< e[2], e[1] >>] =
                     RMul(RSub(RInt(1), evaporation), old_pheromone[<< e[2], e[1] >>])
    /\ (iteration >= 1 /\ N = 2 /\ current_best_length > 0) =>
          \A e \in { << 0, 1 >>, << 1, 0 >> } :
              pheromone[e] = RAdd(RMul(RSub(RInt(1), evaporation), old_pheromone[e]),
                                  Deposit(q, current_best_length))

\* two updates on three points with the defaults: the tour of the second
\* update runs against the tour of the first, so the entries it leaves to
\* evaporation are the ones reinforced before
C22_Witness ==
    /\ N = 3
    /\ iteration = 2
    /\ evaporation = << 1, 10 >>
    /\ q = 100
    /\ current_best_length > 0
    /\ \E e \in TourEdges(current_best_path) :
          /\ RLess(Tau0, old_pheromone[<< e[2], e[1] >>])
          /\ RLess(pheromone[<< e[2], e[1] >>], old_pheromone[<< e[2], e[1] >>])

\* C23: the key set of the pheromone matrix is constant over the run: in
\* every state it is exactly the set of ordered pairs (i, j), i # j, of
\* 0..N-1; every entry is 0.1 until the first update, and no update adds or
\* removes an entry.
C23_PheromoneKeySet ==
    /\ DOMAIN pheromone = { k \in (0..(N - 1)) \X (0..(N - 1)) : k[1] # k[2] }
    /\ DOMAIN old_pheromone = DOMAIN pheromone
    /\ iteration = 0 => \A k \in DOMAIN pheromone : pheromone[k] = << 1, 10 >>

\* two updates on four points have changed the values of the twelve entries
C23_Witness ==
    /\ FourPoints
    /\ iteration = 2
    /\ Cardinality(DOMAIN pheromone) = 12
    /\ \A k \in DOMAIN pheromone : pheromone[k] # << 1, 10 >>

\* C24: for N >= 2, ants >= 1 and iterations >= 1 (evaporation and q at
\* their defaults) the headless optimizer has no early exit: no exception ends the run, and when it returns it has run
\* exactly `iterations` iterations of exactly `ants` tours of N nodes.
C24_RunsToCompletion ==
    (N >= 2 /\ ants >= 1 /\ iterations >= 1 /\ evaporation = << 1, 10 >> /\ q = 100) =>
        /\ pc # "raised"
        /\ pc = "done" => (iteration = iterations /\ tours_built = iterations * ants)
        /\ \A k \in 1..Len(all_paths) : Len(all_paths[k]) = N

\* the tour started at its position r + 1
Rotate(path, r) == [ k \in 1..Len(path) |-> path[((k - 1 + r) % Len(path)) + 1] ]

\* the tour walked backwards
Reverse(path) == [ k \in 1..Len(path) |-> path[Len(path) + 1 - k] ]

\* the sum of the distances over the consecutive pairs of the open path
RECURSIVE OpenLength(_, _)
OpenLength(p, dist) ==
    IF Len(p) < 2 THEN 0
    ELSE LAdd(DistGet(dist, p[1], p[2]), OpenLength(Tail(p), dist))

\* C30: the closed-cycle length of a tour is the same for every rotation of
\* the tour and for the reversed tour, and it counts exactly N edges: the
\* N - 1 edges between consecutive nodes and the edge from the last node back
\* to the first.
C30_LengthRotationReversal ==
    \A k \in 1..Len(all_paths) :
        LET path == all_paths[k]
            len  == compute_path_length(path, distances)
        IN  /\ \A r \in 0..(Len(path) - 1) :
                  compute_path_length(Rotate(path, r), distances) = len
            /\ compute_path_length(Reverse(path), distances) = len
            /\ len = LAdd(OpenLength(path, distances),
                          DistGet(distances, path[Len(path)], path[1]))
            /\ Cardinality(1..Len(path)) = N

\* a tour of length 50 on four distinct points whose four edges have four
\* different lengths, not started at node 0
C30_Witness ==
    /\ FourPoints
    /\ Len(all_paths) >= 1
    /\ all_paths[1][1] # 0
    /\ compute_path_length(all_paths[1], distances) = 50
    /\ Cardinality({ distances[e] : e \in TourEdges(all_paths[1]) }) = 4

\* C25: with the default parameters the two variants stay in lockstep. From
\* the matrix an iteration of the headless run starts with, both variants
\* compute the same weights at every construction step (so the same draws
\* pick the same nodes) and have the same outcomes, exceptions included; and
\* the matrix the headless update leaves is the one update_pheromones of the
\* interactive variant computes from the same matrix and the same
\* iteration-best tour, with the length it recomputes and its own defaults.
C25_VariantsInLockstep ==
    (evaporation = << 1, 10 >> /\ q = 100) =>
        /\ (pc = "ants" /\ all_paths = << >>) =>
              /\ \A p \in PartialPaths(N) :
                    LET unvisited == Unvisited(N, { p[k] : k \in 1..Len(p) })
                    IN  DrawNext("simple", pheromone, distances, p[Len(p)], unvisited)
                          = DrawNext("interactive", pheromone, distances, p[Len(p)], unvisited)
              /\ ConstructPath("simple", pheromone, distances, N)
                    = ConstructPath("interactive", pheromone, distances, N)
        /\ iteration >= 1 =>
              pheromone = update_pheromones(old_pheromone, current_best_path,
                              compute_path_length(current_best_path, distances),
                              << 1, 10 >>, 100)

\* the headless run is in its second iteration on four distinct points, with
\* trails that are no longer uniform
C25_Witness ==
    /\ evaporation = << 1, 10 >>
    /\ q = 100
    /\ FourPoints
    /\ pc = "ants"
    /\ all_paths = << >>
    /\ iteration = 1
    /\ \E j, k \in DOMAIN pheromone : pheromone[j] # pheromone[k]

\* an iteration of the session is at work: a tour of the iteration has been
\* constructed, or the pheromone update is in progress
IterationAtWork ==
    /\ mpc = "session"
    /\ \/ pc = "paths" /\ all_paths # << >>
       \/ pc \in { "evaporate", "reinforce" }

\* C26: in the interactive variant no iteration (tour construction and
\* pheromone update) executes while control.paused is True.
C26_NoIterationWhilePaused == control.paused => ~IterationAtWork

\* C27: in the interactive variant, once control.quit_requested is True in a
\* session, no tour is constructed and no pheromone update is performed in
\* that session.
C27_NoWorkAfterQuit == control.quit_requested => ~IterationAtWork

\* C28: in the interactive variant, once control.restart_requested is True in
\* a session, no step of the session constructs a tour or changes the
\* pheromone matrix, and the session only goes on to the tests at the head of
\* an iteration, where it returns.
C28_NoWorkAfterRestart ==
    [][ (mpc = "session" /\ control.restart_requested) =>
          /\ pc \in { "top", "pause", "restart" }
          /\ tours_built' = tours_built
          /\ pheromone' = pheromone
          /\ pc' \in { "top", "pause", "restart", "restarted", "broke", "completed" }
          /\ pc = "restart" => pc' \in { "restart", "restarted" } ]_vars

\* R was pressed during the first iteration of a session: the session returned
\* from the restart test of the second iteration with one update applied
C28_Witness ==
    /\ mpc = "ask"
    /\ pc = "restarted"
    /\ control.restart_requested
    /\ ~control.quit_requested
    /\ iteration = 1
    /\ tours_built = ants
    /\ pheromone # initialize_pheromones(N)

\* C29: every session main starts begins with all control flags cleared:
\* paused, restart_requested and quit_requested are False when the session is
\* entered.
C29_SessionStartsWithFlagsCleared ==
    (mpc = "session" /\ pc = "top" /\ iteration = 0) =>
        (~control.paused /\ ~control.restart_requested /\ ~control.quit_requested)

\* the pair (c, n) is missing from the pheromone matrix or the distance table
Absent(c, n) == << c, n >> \notin DOMAIN pheromone \/ << c, n >> \notin DOMAIN distances

====
